---- MODULE Spec2Model ----
(***************************************************************************)
(* Row decoding of Garmelon/vault (src/src/serde.rs): the Cell Adapter     *)
(* (ValueRefDeserializer), the positional driver (IndexedRowDeserializer,  *)
(* IndexedRowSeq, IndexedRowMap), the named driver (NamedRowDeserializer,  *)
(* NamedRowMap) and the two entry points.                                  *)
(*                                                                         *)
(* A decode call is a dialogue between the deserializers of serde.rs and   *)
(* the visitor of the target type.  The target type is described by a      *)
(* shape; the visitor's requests (next element, next key, next value) are  *)
(* the actions of the state machine, and what the deserializers answer is  *)
(* computed by operators that follow the code of serde.rs line by line.    *)
(***************************************************************************)
EXTENDS Integers, Sequences, FiniteSets, TLC

(***************************************************************************)
(* Bounds of the model.                                                    *)
(***************************************************************************)
\* longest row made of palette cells
MaxRow == 2
\* longest Text / Blob payload of a cell, in bytes
MaxTextLen == 2
\* Integer cells hold -IntBound .. IntBound
IntBound == 2
\* deepest nesting of option / newtype wrappers around a cell-level target
MaxWrap == 1
\* longest field list of a struct target
MaxFields == 2

(***************************************************************************)
(* Cells: rusqlite::types::ValueRef.  A cell is a record                   *)
(*   kind  one of the five kinds                                           *)
(*   i     the payload of Integer, or of Real in halves (3 is 1.5)         *)
(*   b     the payload of Text / Blob, a sequence of bytes                 *)
(***************************************************************************)
ByteSet == {65, 97, 195, 169}   \* 'A', 'a', 0xC3 (lead of 2), 0xA9 (continuation)

RECURSIVE SeqsUpTo(_, _)
SeqsUpTo(S, n) ==
    IF n = 0 THEN {<<>>}
    ELSE LET shorter == SeqsUpTo(S, n - 1)
         IN  shorter \cup {Append(s, x) : s \in {t \in shorter : Len(t) = n - 1}, x \in S}

ByteSeqs == SeqsUpTo(ByteSet, MaxTextLen)

RealValues == {0, 3}

Null == [kind |-> "Null", i |-> 0, b |-> <<>>]
Integer(v) == [kind |-> "Integer", i |-> v, b |-> <<>>]
Real(v) == [kind |-> "Real", i |-> v, b |-> <<>>]
Text(v) == [kind |-> "Text", i |-> 0, b |-> v]
Blob(v) == [kind |-> "Blob", i |-> 0, b |-> v]

ValueRef ==
    {Null} \cup {Integer(v) : v \in -IntBound..IntBound} \cup {Real(v) : v \in RealValues}
           \cup {Text(v) : v \in ByteSeqs} \cup {Blob(v) : v \in {w \in ByteSeqs : Len(w) <= 1}}

(***************************************************************************)
(* std::str::from_utf8, as called at serde.rs lines 74 and 110: the        *)
(* well-formedness check of UTF-8 (RFC 3629), byte by byte.                *)
(***************************************************************************)
IsCont(x) == x >= 128 /\ x <= 191

RECURSIVE Utf8From(_, _)
Utf8From(v, p) ==
    IF p > Len(v) THEN TRUE
    ELSE LET x == v[p]
             has(n) == p + n <= Len(v)
         IN  IF x < 128 THEN Utf8From(v, p + 1)
             ELSE IF x >= 194 /\ x <= 223
                  THEN has(1) /\ IsCont(v[p + 1]) /\ Utf8From(v, p + 2)
             ELSE IF x >= 224 /\ x <= 239
                  THEN /\ has(2)
                       /\ IsCont(v[p + 1]) /\ IsCont(v[p + 2])
                       /\ (x = 224 => v[p + 1] >= 160)
                       /\ (x = 237 => v[p + 1] <= 159)
                       /\ Utf8From(v, p + 3)
             ELSE IF x >= 240 /\ x <= 244
                  THEN /\ has(3)
                       /\ IsCont(v[p + 1]) /\ IsCont(v[p + 2]) /\ IsCont(v[p + 3])
                       /\ (x = 240 => v[p + 1] >= 144)
                       /\ (x = 244 => v[p + 1] <= 143)
                       /\ Utf8From(v, p + 4)
             ELSE FALSE

from_utf8(v) == Utf8From(v, 1)

(***************************************************************************)
(* Results.  Result<V::Value, Error> is a record                           *)
(*   ok     TRUE for Ok                                                    *)
(*   err    the variant of enum Error (serde.rs 16-22), "" for Ok          *)
(*   msg    what a Custom error complains about, "" otherwise              *)
(*   calls  the visitor methods the deserializer invoked, outermost first  *)
(*   vk,i,b the value the visitor built: its kind and payload              *)
(***************************************************************************)
Ok(call, vk, i, b) ==
    [ok |-> TRUE, err |-> "", msg |-> "", calls |-> <<call>>, vk |-> vk, i |-> i, b |-> b]

Err(kind, msg, calls) ==
    [ok |-> FALSE, err |-> kind, msg |-> msg, calls |-> calls, vk |-> "", i |-> 0, b |-> <<>>]

\* impl de::Error for Error: every complaint of the framework becomes Custom
custom(msg, call) == Err("Custom", msg, <<call>>)

\* the result of a visitor method that handed the deserializer on to an inner target
Via(call, r) == [r EXCEPT !.calls = <<call>> \o @]

(***************************************************************************)
(* Target shapes.  A cell-level target is a chain of wrappers ("option",   *)
(* "newtype_struct") ending in a leaf; each name is the Deserializer       *)
(* method the target's Deserialize impl calls.  An "enum" leaf comes with  *)
(* its variant names.                                                      *)
(***************************************************************************)
Leaves ==
    {"bool", "i64", "f64", "string", "bytes", "unit", "seq", "tuple", "struct", "map", "enum"}

Wrappers == {"option", "newtype_struct"}

Shapes == {w \o <<l>> : w \in SeqsUpTo(Wrappers, MaxWrap), l \in Leaves}

\* the declared enumerations: {A, aA} and {a}
EnumDecls == { << <<65>>, <<97, 65>> >>, << <<97>> >> }

Leaf(shape) == shape[Len(shape)]

\* the (shape, variants) pairs a visitor can request
Requests ==
    {<<s, v>> \in Shapes \X (EnumDecls \cup {<<>>}) : (v # <<>>) <=> (Leaf(s) = "enum")}

(***************************************************************************)
(* The visitors of the target types (serde's Visitor trait as implemented  *)
(* by serde's own impls and by derive): what each visit_* method the       *)
(* deserializers of serde.rs call does with what it is given.  The visitor *)
(* is identified by the head of the shape.  A method a visitor does not    *)
(* implement is serde's default: Err(invalid_type), a Custom error.        *)
(***************************************************************************)
RECURSIVE Deserialize(_, _, _)

visit_unit(shape) ==
    CASE Head(shape) = "unit" -> Ok("visit_unit", "unit", 0, <<>>)
      [] Head(shape) = "option" -> Ok("visit_unit", "none", 0, <<>>)
      [] OTHER -> custom("invalid_type", "visit_unit")

visit_bool(shape, v) ==
    IF Head(shape) = "bool"
    THEN Ok("visit_bool", "bool", IF v THEN 1 ELSE 0, <<>>)
    ELSE custom("invalid_type", "visit_bool")

visit_i64(shape, v) ==
    CASE Head(shape) = "i64" -> Ok("visit_i64", "i64", v, <<>>)
      [] Head(shape) = "f64" -> Ok("visit_i64", "f64", 2 * v, <<>>)
      [] OTHER -> custom("invalid_type", "visit_i64")

visit_f64(shape, v) ==
    IF Head(shape) = "f64"
    THEN Ok("visit_f64", "f64", v, <<>>)
    ELSE custom("invalid_type", "visit_f64")

visit_borrowed_str(shape, v) ==
    CASE Head(shape) = "string" -> Ok("visit_borrowed_str", "str", 0, v)
      [] Head(shape) = "bytes" -> Ok("visit_borrowed_str", "bytes", 0, v)
      [] OTHER -> custom("invalid_type", "visit_borrowed_str")

visit_borrowed_bytes(shape, v) ==
    CASE Head(shape) = "bytes" -> Ok("visit_borrowed_bytes", "bytes", 0, v)
      [] Head(shape) = "string" ->
            IF from_utf8(v)
            THEN Ok("visit_borrowed_bytes", "str", 0, v)
            ELSE custom("invalid_value", "visit_borrowed_bytes")
      [] OTHER -> custom("invalid_type", "visit_borrowed_bytes")

visit_none(shape) ==
    IF Head(shape) = "option"
    THEN Ok("visit_none", "none", 0, <<>>)
    ELSE custom("invalid_type", "visit_none")

\* OptionVisitor::visit_some: T::deserialize(deserializer).map(Some)
visit_some(shape, variants, value) ==
    IF Head(shape) = "option"
    THEN Via("visit_some", Deserialize(value, Tail(shape), variants))
    ELSE custom("invalid_type", "visit_some")

\* derive's visit_newtype_struct: Inner::deserialize(deserializer).map(Wrapper)
visit_newtype_struct(shape, variants, value) ==
    IF Head(shape) = "newtype_struct"
    THEN Via("visit_newtype_struct", Deserialize(value, Tail(shape), variants))
    ELSE custom("invalid_type", "visit_newtype_struct")

\* derive's visit_enum over a string: the variant whose name is the string, or
\* Err(unknown_variant(name, VARIANTS))
visit_enum(shape, variants, name) ==
    IF Head(shape) = "enum"
    THEN IF \E k \in 1..Len(variants) : variants[k] = name
         THEN Ok("visit_enum", "variant", 0, name)
         ELSE custom("unknown_variant", "visit_enum")
    ELSE custom("invalid_type", "visit_enum")

(***************************************************************************)
(* The Cell Adapter: impl Deserializer for ValueRefDeserializer.           *)
(***************************************************************************)
\* a dispatch that hands a Real cell on as an integer
deserialize_any_RealAsInteger(value, shape) ==
    CASE value.kind = "Null" -> visit_unit(shape)
      [] value.kind \in {"Integer", "Real"} -> visit_i64(shape, value.i)
      [] value.kind = "Text" ->
            IF from_utf8(value.b)
            THEN visit_borrowed_str(shape, value.b)
            ELSE Err("Utf8", "", <<>>)
      [] value.kind = "Blob" -> visit_borrowed_bytes(shape, value.b)

\* a dispatch that hands Text on without validating it
deserialize_any_Unvalidated(value, shape) ==
    CASE value.kind = "Null" -> visit_unit(shape)
      [] value.kind = "Integer" -> visit_i64(shape, value.i)
      [] value.kind = "Real" -> visit_f64(shape, value.i)
      [] value.kind = "Text" -> visit_borrowed_str(shape, value.b)
      [] value.kind = "Blob" -> visit_borrowed_bytes(shape, value.b)

\* ValueRefDeserializer::deserialize_any
deserialize_any(value, shape) ==
    CASE value.kind = "Null" -> visit_unit(shape)
      [] value.kind = "Integer" -> visit_i64(shape, value.i)
      [] value.kind = "Real" -> visit_f64(shape, value.i)
      [] value.kind = "Text" ->
            IF from_utf8(value.b)
            THEN visit_borrowed_str(shape, value.b)
            ELSE Err("Utf8", "", <<>>)
      [] value.kind = "Blob" -> visit_borrowed_bytes(shape, value.b)

\* a coercion that takes only positive integers for true
deserialize_bool_PositiveIsTrue(value, shape) ==
    CASE value.kind = "Integer" /\ value.i <= 0 -> visit_bool(shape, FALSE)
      [] value.kind = "Integer" /\ value.i > 0 -> visit_bool(shape, TRUE)
      [] OTHER -> deserialize_any(value, shape)

\* ValueRefDeserializer::deserialize_bool
deserialize_bool(value, shape) ==
    CASE value.kind = "Integer" /\ value.i = 0 -> visit_bool(shape, FALSE)
      [] value.kind = "Integer" /\ value.i # 0 -> visit_bool(shape, TRUE)
      [] OTHER -> deserialize_any(value, shape)

\* an option that also takes Integer(0) for absent
deserialize_option_ZeroIsNone(value, shape, variants) ==
    IF value.kind = "Null" \/ (value.kind = "Integer" /\ value.i = 0)
    THEN visit_none(shape)
    ELSE visit_some(shape, variants, value)

\* ValueRefDeserializer::deserialize_option
deserialize_option(value, shape, variants) ==
    IF value.kind = "Null"
    THEN visit_none(shape)
    ELSE visit_some(shape, variants, value)

\* ValueRefDeserializer::deserialize_newtype_struct
deserialize_newtype_struct(value, shape, variants) ==
    visit_newtype_struct(shape, variants, value)

\* an enumeration match that takes Blob cells like Text cells
deserialize_enum_BlobAsText(value, shape, variants) ==
    IF value.kind \in {"Text", "Blob"}
    THEN IF from_utf8(value.b)
         THEN visit_enum(shape, variants, value.b)
         ELSE Err("Utf8", "", <<>>)
    ELSE deserialize_any(value, shape)

\* ValueRefDeserializer::deserialize_enum; BorrowedStrDeserializer::deserialize_enum
\* is visitor.visit_enum(self)
deserialize_enum(value, shape, variants) ==
    IF value.kind = "Text"
    THEN IF from_utf8(value.b)
         THEN visit_enum(shape, variants, value.b)
         ELSE Err("Utf8", "", <<>>)
    ELSE deserialize_any(value, shape)

\* the methods forward_to_deserialize_any! sends to deserialize_any (the integer
\* and float widths, char, str, byte_buf, unit_struct, tuple_struct, identifier
\* and ignored_any of the list are represented by i64, f64, string, bytes, unit, tuple)
ValueRefForwarded == {"i64", "f64", "string", "bytes", "unit", "seq", "tuple", "map", "struct"}

\* T::deserialize(ValueRefDeserializer { value }) for the target T of the shape:
\* T's impl calls the Deserializer method its shape names
Deserialize(value, shape, variants) ==
    CASE Head(shape) = "bool" -> deserialize_bool(value, shape)
      [] Head(shape) = "option" -> deserialize_option(value, shape, variants)
      [] Head(shape) = "newtype_struct" -> deserialize_newtype_struct(value, shape, variants)
      [] Head(shape) = "enum" -> deserialize_enum(value, shape, variants)
      [] Head(shape) \in ValueRefForwarded -> deserialize_any(value, shape)

(***************************************************************************)
(* Rows.  rusqlite's Row::get_ref(idx), as the drivers use it: the cell at *)
(* a zero-based index, Err(InvalidColumnIndex) past the last column, or a  *)
(* failure of the host binding for a column that exists (hostFail).  A     *)
(* negative index stands for next_index - 1 taken at next_index = 0, which *)
(* the turns of keys and values keep from happening.                       *)
(***************************************************************************)
get_ref(r, idx, hostFail) ==
    IF idx < 0 \/ idx >= Len(r) THEN [tag |-> "InvalidColumnIndex", value |-> Null]
    ELSE IF hostFail THEN [tag |-> "Other", value |-> Null]
    ELSE [tag |-> "Ok", value |-> r[idx + 1]]

\* the cells multi-column rows are made of
Palette == {Null, Integer(1), Text(<<65>>)}

Rows == SeqsUpTo(Palette, MaxRow) \cup {<<c>> : c \in ValueRef}

NameOrder == <<"id", "name", "note", "tag">>

Names == {NameOrder[k] : k \in 1..Len(NameOrder)}

ColName(k) == NameOrder[((k - 1) % Len(NameOrder)) + 1]

\* the column names of a row of n cells: in the declared order, or reversed
Layouts(n) == {[k \in 1..n |-> ColName(k)], [k \in 1..n |-> ColName(n + 1 - k)]}

\* the field lists of struct targets: n distinct names, in the declared order or
\* reversed (the same fields under other names)
FieldLists == UNION {Layouts(n) : n \in 0..MaxFields}

(***************************************************************************)
(* Top-level targets: newtype wrappers around a leaf, the leaf naming the  *)
(* Deserializer method the target calls on the row deserializer.           *)
(***************************************************************************)
TopLeaves ==
    {"bool", "i64", "f64", "string", "bytes", "option", "unit", "map", "enum",
     "seq", "tuple", "tuple_struct", "struct"}

TopShapes == {w \o <<l>> : w \in SeqsUpTo({"newtype_struct"}, MaxWrap), l \in TopLeaves}

\* what a row deserializer answers to T::deserialize: the access object it hands
\* to the visitor, or the error it returns; calls are the visitor methods invoked
Opened(access, calls) == [access |-> access, err |-> "", calls |-> calls]

Refused(err, calls) == [access |-> "none", err |-> err, calls |-> calls]

\* forward_to_deserialize_any! of IndexedRowDeserializer
IndexedForwarded == {"bool", "i64", "f64", "string", "bytes", "option", "unit", "map", "enum"}

\* impl Deserializer for IndexedRowDeserializer
RECURSIVE IndexedRowDeserializer(_)
IndexedRowDeserializer(shape) ==
    CASE Head(shape) = "newtype_struct" ->
            LET inner == IndexedRowDeserializer(Tail(shape))
            IN  [inner EXCEPT !.calls = <<"visit_newtype_struct">> \o @]
      [] Head(shape) \in {"seq", "tuple", "tuple_struct"} ->
            Opened("IndexedRowSeq", <<"visit_seq">>)
      [] Head(shape) = "struct" -> Opened("IndexedRowMap", <<"visit_map">>)
      [] Head(shape) \in IndexedForwarded -> Refused("ExpectedTupleLikeBaseType", <<>>)

\* forward_to_deserialize_any! of NamedRowDeserializer
NamedForwarded ==
    {"bool", "i64", "f64", "string", "bytes", "option", "unit", "newtype_struct",
     "seq", "tuple", "tuple_struct", "map", "enum"}

\* a named driver that refuses with the positional driver's error
NamedRowDeserializer_TupleError(shape) ==
    CASE Head(shape) = "struct" -> Opened("NamedRowMap", <<"visit_map">>)
      [] Head(shape) \in NamedForwarded -> Refused("ExpectedTupleLikeBaseType", <<>>)

\* impl Deserializer for NamedRowDeserializer
NamedRowDeserializer(shape) ==
    CASE Head(shape) = "struct" -> Opened("NamedRowMap", <<"visit_map">>)
      [] Head(shape) \in NamedForwarded -> Refused("ExpectedStructLikeBaseType", <<>>)

(***************************************************************************)
(* State of one decode call.                                               *)
(***************************************************************************)
VARIABLES
    row,         \* the Row being decoded
    columns,     \* the row's own column names
    status,      \* "idle", "visiting", "ok" (a value was returned), "err"
    access,      \* the access object the visitor holds
    target,      \* the top-level shape of T
    fields,      \* the field list of the struct target
    next_index,  \* the cursor of the access object
    awaiting,    \* a key was handed out and its value not yet asked for
    served,      \* the row indices whose cells were dispatched, in order
    keys,        \* the field names handed out as keys, in order
    entry,       \* the entry point that was called
    error,       \* the Error the call failed with
    ret,         \* what the entry point returned to its caller
    last         \* the last request and its answer

vars ==
    <<row, columns, status, access, target, fields, next_index, awaiting, served, keys,
      entry, error, ret, last>>

NoRes == [ok |-> TRUE, err |-> "", msg |-> "", calls |-> <<>>, vk |-> "", i |-> 0, b |-> <<>>]

\* Ok(None): "no more elements" / "no more keys"
EndRes == [NoRes EXCEPT !.vk = "end"]

\* Ok(Some(key)): the field identifier built from a field name
KeyRes == Ok("visit_borrowed_str", "field", 0, <<>>)

Request(op, cursor, idx, key, req, got, res) ==
    [op |-> op, cursor |-> cursor, idx |-> idx, key |-> key, shape |-> req[1],
     variants |-> req[2], got |-> got, res |-> res]

NoReq == <<<<>>, <<>>>>

\* the entry point has not returned
NoRet == [tag |-> "", carrier |-> "", source |-> "", cells |-> <<>>]

\* .map_err(|err| FromSqlError::Other(Box::new(err)).into())
map_err(err) == [tag |-> "Err", carrier |-> "FromSqlError::Other", source |-> err, cells |-> <<>>]

\* an entry point that falls back to what was decoded so far on a Custom error
EntryResult_CustomIsDefault(st, err, cells) ==
    CASE st = "ok" \/ (st = "err" /\ err = "Custom") ->
            [tag |-> "Ok", carrier |-> "", source |-> "", cells |-> cells]
      [] st = "err" -> map_err(err)
      [] OTHER -> NoRet

\* what from_row_via_index / from_row_via_name return once T::deserialize has
\* returned: the value, built from the cells dispatched, or the wrapped error
EntryResult(st, err, cells) ==
    CASE st = "ok" -> [tag |-> "Ok", carrier |-> "", source |-> "", cells |-> cells]
      [] st = "err" -> map_err(err)
      [] OTHER -> NoRet

RowInit ==
    /\ row \in Rows
    /\ columns \in Layouts(Len(row))
    /\ status = "idle"
    /\ access = "none"
    /\ target = <<>>
    /\ fields = <<>>
    /\ next_index = 0
    /\ awaiting = FALSE
    /\ served = <<>>
    /\ keys = <<>>
    /\ entry = ""
    /\ error = ""
    /\ ret = NoRet
    /\ last = Request("none", 0, -1, "", NoReq, "", NoRes)

\* T::deserialize(d) for a row deserializer d that answered `opened`
Enter(op, shape, flds, opened) ==
    /\ target' = shape
    /\ fields' = flds
    /\ access' = opened.access
    /\ status' = IF opened.access = "none" THEN "err" ELSE "visiting"
    /\ error' = opened.err
    /\ next_index' = 0
    /\ entry' = op
    /\ last' = Request(op, 0, -1, "", NoReq, "", [NoRes EXCEPT !.calls = opened.calls])
    /\ UNCHANGED <<row, columns, awaiting, served, keys>>
    /\ ret' = EntryResult(status', error', served')

\* from_row_via_index::<T>(row)
from_row_via_index ==
    /\ status = "idle"
    /\ \E shape \in TopShapes :
         \E flds \in (IF Leaf(shape) = "struct" THEN FieldLists ELSE {<<>>}) :
            Enter("from_row_via_index", shape, flds, IndexedRowDeserializer(shape))

\* from_row_via_name::<T>(row)
from_row_via_name ==
    /\ status = "idle"
    /\ \E shape \in TopShapes :
         \E flds \in (IF Leaf(shape) = "struct" THEN FieldLists ELSE {<<>>}) :
            Enter("from_row_via_name", shape, flds, NamedRowDeserializer(shape))

\* a match that ends the sequence on every failure of get_ref
SeqAnswer_AnyErrorEnds(tag) == IF tag = "Ok" THEN "some" ELSE "none"

\* the match of next_element_seed on the answer of get_ref
SeqAnswer(tag) ==
    CASE tag = "Ok" -> "some"
      [] tag = "InvalidColumnIndex" -> "none"
      [] OTHER -> "err"

\* a cursor that skips a cell at every step
AdvanceSkipping(index) == index + 2

\* self.next_index += 1
Advance(index) == index + 1

\* IndexedRowSeq::next_element_seed.  The seed is used only when the row has a
\* cell at the cursor.
next_element_seed ==
    /\ status = "visiting"
    /\ access = "IndexedRowSeq"
    /\ \E hostFail \in BOOLEAN :
         LET got == get_ref(row, next_index, hostFail)
         IN  CASE SeqAnswer(got.tag) = "some" ->
                    \E req \in Requests :
                       LET res == Deserialize(got.value, req[1], req[2])
                       IN  /\ next_index' = Advance(next_index)
                           /\ served' = Append(served, next_index)
                           /\ last' = Request("next_element_seed", next_index, next_index,
                                              "", req, got.tag, res)
                           /\ status' = IF res.ok THEN "visiting" ELSE "err"
                           /\ error' = res.err
               [] SeqAnswer(got.tag) = "none" ->
                    /\ last' = Request("next_element_seed", next_index, next_index, "",
                                       NoReq, got.tag, EndRes)
                    /\ UNCHANGED <<next_index, served, status, error>>
               [] OTHER ->
                    /\ last' = Request("next_element_seed", next_index, next_index, "",
                                       NoReq, got.tag, Err("Rusqlite", "", <<>>))
                    /\ status' = "err"
                    /\ error' = "Rusqlite"
                    /\ UNCHANGED <<next_index, served>>
    /\ UNCHANGED <<row, columns, access, target, fields, awaiting, keys, entry>>
    /\ ret' = EntryResult(status', error', served')

\* self.fields.get(self.next_index)
FieldAt(index) == fields[index + 1]

\* a value lookup by the row's own column names: the column called like the key
ValueIndexByColumnName(index) ==
    IF \E c \in 1..Len(columns) : columns[c] = fields[index]
    THEN (CHOOSE c \in 1..Len(columns) : columns[c] = fields[index]) - 1
    ELSE index - 1

\* the row index next_value_seed reads: self.next_index - 1
ValueIndex(index) == index - 1

\* The visitor of a struct asks for a key, then for its value, in turns (the
\* protocol of serde's MapAccess, which derive follows).
\* next_key_seed of a map access over the field list
KeySeed(op) ==
    /\ ~awaiting
    /\ IF next_index < Len(fields)
       THEN /\ next_index' = Advance(next_index)
            /\ awaiting' = TRUE
            /\ keys' = Append(keys, FieldAt(next_index))
            /\ last' = Request(op, next_index, -1, FieldAt(next_index), NoReq, "", KeyRes)
       ELSE /\ awaiting' = FALSE
            /\ last' = Request(op, next_index, -1, "", NoReq, "", EndRes)
            /\ UNCHANGED <<next_index, keys>>
    /\ UNCHANGED <<row, columns, status, access, target, fields, served, entry, error, ret>>

\* next_value_seed of a map access: the cell at next_index - 1; the seed is used
\* only when the row has that cell
ValueSeed(op) ==
    /\ awaiting
    /\ awaiting' = FALSE
    /\ \E hostFail \in BOOLEAN :
         LET idx == ValueIndex(next_index)
             got == get_ref(row, idx, hostFail)
         IN  IF got.tag = "Ok"
             THEN \E req \in Requests :
                     LET res == Deserialize(got.value, req[1], req[2])
                     IN  /\ served' = Append(served, idx)
                         /\ last' = Request(op, next_index, idx, last.key, req, got.tag, res)
                         /\ status' = IF res.ok THEN "visiting" ELSE "err"
                         /\ error' = res.err
             ELSE /\ last' = Request(op, next_index, idx, last.key, NoReq, got.tag,
                                     Err("Rusqlite", "", <<>>))
                  /\ status' = "err"
                  /\ error' = "Rusqlite"
                  /\ UNCHANGED served
    /\ UNCHANGED <<row, columns, access, target, fields, next_index, keys, entry>>
    /\ ret' = EntryResult(status', error', served')

\* IndexedRowMap::next_key_seed
IndexedRowMap_next_key_seed ==
    /\ status = "visiting"
    /\ access = "IndexedRowMap"
    /\ KeySeed("next_key_seed")

\* IndexedRowMap::next_value_seed
IndexedRowMap_next_value_seed ==
    /\ status = "visiting"
    /\ access = "IndexedRowMap"
    /\ ValueSeed("next_value_seed")

\* NamedRowMap::next_key_seed
NamedRowMap_next_key_seed ==
    /\ status = "visiting"
    /\ access = "NamedRowMap"
    /\ KeySeed("next_key_seed")

\* NamedRowMap::next_value_seed
NamedRowMap_next_value_seed ==
    /\ status = "visiting"
    /\ access = "NamedRowMap"
    /\ ValueSeed("next_value_seed")

\* the visitor returns the value it built and the entry point returns Ok
Finish ==
    /\ status = "visiting"
    /\ ~awaiting
    /\ status' = "ok"
    /\ last' = Request("return", next_index, -1, "", NoReq, "", NoRes)
    /\ UNCHANGED <<row, columns, access, target, fields, next_index, awaiting, served, keys,
                   entry, error>>
    /\ ret' = EntryResult(status', error', served')

\* the visitor gives up on what it was handed (a tuple that ran out of elements,
\* a struct that misses a field): de::Error::custom, returned by the entry point
visitor_error ==
    /\ status = "visiting"
    /\ ~awaiting
    /\ \E msg \in {"invalid_length", "missing_field"} :
          /\ status' = "err"
          /\ error' = "Custom"
          /\ last' = Request("return", next_index, -1, "", NoReq, "", Err("Custom", msg, <<>>))
    /\ UNCHANGED <<row, columns, access, target, fields, next_index, awaiting, served, keys, entry>>
    /\ ret' = EntryResult(status', error', served')

(***************************************************************************)
(* Properties.                                                             *)
(***************************************************************************)
\* <<0, 1, ..., n - 1>>
Iota(n) == [k \in 1..n |-> k - 1]

\* the cell the last request dispatched
Cell == row[last.idx + 1]

\* the last request dispatched a cell through the Cell Adapter
Dispatched == last.op \in {"next_element_seed", "next_value_seed"} /\ last.got = "Ok"

\* the shape whose kind is the kind of the cell
NaturalShape(c) ==
    CASE c.kind = "Null" -> <<"unit">>
      [] c.kind = "Integer" -> <<"i64">>
      [] c.kind = "Real" -> <<"f64">>
      [] c.kind = "Text" -> <<"string">>
      [] c.kind = "Blob" -> <<"bytes">>

\* the kind of value a cell is when built directly
NaturalValue(c) ==
    CASE c.kind = "Null" -> "unit"
      [] c.kind = "Integer" -> "i64"
      [] c.kind = "Real" -> "f64"
      [] c.kind = "Text" -> "str"
      [] c.kind = "Blob" -> "bytes"

\* the visitor method that carries the natural representation of a cell
NaturalCall(c) ==
    CASE c.kind = "Null" -> "visit_unit"
      [] c.kind = "Integer" -> "visit_i64"
      [] c.kind = "Real" -> "visit_f64"
      [] c.kind = "Text" -> "visit_borrowed_str"
      [] c.kind = "Blob" -> "visit_borrowed_bytes"

\* well-formed UTF-8 over ByteSet, by construction: a concatenation of the
\* encodings of 'A', 'a' and U+00E9
RECURSIVE WellFormed(_)
WellFormed(v) ==
    \/ v = <<>>
    \/ Head(v) \in {65, 97} /\ WellFormed(Tail(v))
    \/ Len(v) >= 2 /\ v[1] = 195 /\ v[2] = 169 /\ WellFormed(Tail(Tail(v)))

\* C1: positional decoding of a sequence/tuple target hands out the cells in row
\* order: the cursor starts at 0 and advances by one per cell handed out, the k-th
\* element request (0-based) dispatches exactly the cell at index k through the Cell
\* Adapter, and a cell whose kind matches the element shape decodes to the value
\* built directly from that cell.
C1_PositionalInOrder ==
    access = "IndexedRowSeq" =>
        /\ served = Iota(Len(served))
        /\ next_index = Len(served)
        /\ (last.op = "next_element_seed" /\ last.got = "Ok") =>
              /\ last.cursor = Len(served) - 1
              /\ last.idx = last.cursor
              /\ last.res = Deserialize(row[last.cursor + 1], last.shape, last.variants)
              /\ (last.shape = NaturalShape(Cell) /\ (Cell.kind = "Text" => WellFormed(Cell.b))) =>
                    /\ last.res.ok
                    /\ last.res.vk = NaturalValue(Cell)
                    /\ last.res.i = Cell.i
                    /\ last.res.b = Cell.b

\* C1 witness: the second element of a two-cell row was decoded from cell 1 as text
C1_Witness ==
    /\ access = "IndexedRowSeq"
    /\ served = <<0, 1>>
    /\ last.op = "next_element_seed"
    /\ last.shape = <<"string">>
    /\ last.res.ok
    /\ last.res.b = row[2].b

\* C2: struct traversal, by name and by position: the N-th key request is answered
\* with the N-th field name, the value request that follows it dispatches the cell at
\* row index N - 1, whatever the field names and the row's column names are, and once
\* the field list is exhausted every key request signals "no more keys".
C2_StructFieldOrder ==
    access \in {"IndexedRowMap", "NamedRowMap"} =>
        /\ keys = SubSeq(fields, 1, Len(keys))
        /\ next_index = Len(keys)
        /\ served = Iota(Len(served))
        /\ last.op = "next_key_seed" =>
              /\ (last.res = EndRes) <=> (last.cursor >= Len(fields))
              /\ last.res = EndRes => keys = fields /\ ~awaiting
              /\ last.res # EndRes => last.res = KeyRes /\ last.key = fields[Len(keys)]
        /\ last.op = "next_value_seed" =>
              /\ last.idx = Len(keys) - 1
              /\ last.key = fields[last.idx + 1]
              /\ last.got = "Ok" =>
                    /\ served = Iota(Len(keys))
                    /\ last.res = Deserialize(row[Len(keys)], last.shape, last.variants)
              /\ last.idx >= Len(row) => ~last.res.ok /\ last.res.err = "Rusqlite"

\* C2 witness: by name, the second field of a list that names the columns in the
\* opposite order got the cell at index 1
C2_Witness ==
    /\ access = "NamedRowMap"
    /\ Len(fields) = 2
    /\ Len(row) = 2
    /\ columns[1] = fields[2]
    /\ columns[2] = fields[1]
    /\ last.op = "next_value_seed"
    /\ last.idx = 1
    /\ last.key = fields[2]
    /\ last.res.ok

\* C3 (as claimed): by name, a newtype wrapper around a struct re-enters the named
\* driver: the visitor is handed the map access over the row, as for the struct itself.
C3_NamedNewtypeReenters ==
    (entry = "from_row_via_name" /\ Head(target) = "newtype_struct" /\ Leaf(target) = "struct") =>
        /\ access = "NamedRowMap"
        /\ error # "ExpectedStructLikeBaseType"

\* C4 (as claimed): a sequence, tuple or struct shape requested against a single cell
\* is refused by the Cell Adapter before any visitor method is called.
C4_AggregateNeverOffered ==
    (Dispatched /\ Head(last.shape) \in {"seq", "tuple", "struct"}) =>
        /\ ~last.res.ok
        /\ last.res.calls = <<>>

\* C4 (amended): a sequence, tuple or struct shape requested against a single cell is
\* forwarded to the natural-representation dispatch: the adapter offers the cell's
\* natural representation to the target's visitor (or fails with Utf8 on malformed
\* text) and never opens a sequence or map access; the visitor of an aggregate target
\* refuses the offer, so the decode fails with a Custom invalid-type error and no
\* value is produced.
C4_AggregateOnCellFails ==
    (Dispatched /\ Head(last.shape) \in {"seq", "tuple", "struct"}) =>
        /\ ~last.res.ok
        /\ last.res.vk = ""
        /\ status = "err"
        /\ IF Cell.kind = "Text" /\ ~WellFormed(Cell.b)
           THEN last.res.err = "Utf8" /\ last.res.calls = <<>>
           ELSE /\ last.res.err = "Custom"
                /\ last.res.msg = "invalid_type"
                /\ last.res.calls = <<NaturalCall(Cell)>>

\* C4 witness: a struct was requested against an Integer cell, which was offered to
\* the struct's visitor as an integer and refused
C4_Witness ==
    /\ Dispatched
    /\ last.shape = <<"struct">>
    /\ Cell.kind = "Integer"
    /\ last.res.calls = <<"visit_i64">>
    /\ error = "Custom"

\* a variant of the requested enumeration is named exactly like the text
IsVariant(v) == \E k \in 1..Len(last.variants) : last.variants[k] = v

\* C5 (as claimed): an enumeration requested against a cell yields the variant whose
\* name is exactly the content of a Text cell; every other Text cell and every
\* non-Text cell fails with the variant-mismatch (Custom) error.
C5_EnumMatchOrMismatch ==
    (Dispatched /\ Head(last.shape) = "enum") =>
        IF Cell.kind = "Text" /\ IsVariant(Cell.b)
        THEN last.res.ok /\ last.res.vk = "variant" /\ last.res.b = Cell.b
        ELSE ~last.res.ok /\ last.res.err = "Custom"

\* C5 (amended): an enumeration requested against a cell yields the variant whose name
\* is exactly the content of a Text cell; a well-formed Text cell with any other
\* content fails with the Custom unknown-variant error, a Text cell that is not
\* well-formed UTF-8 fails with the Utf8 error, and a non-Text cell is offered to the
\* enumeration's visitor as its natural representation and fails with a Custom
\* invalid-type error; none of them yields a variant.
C5_EnumExactMatch ==
    (Dispatched /\ Head(last.shape) = "enum") =>
        IF Cell.kind = "Text" /\ IsVariant(Cell.b)
        THEN /\ last.res.ok
             /\ last.res.vk = "variant"
             /\ last.res.b = Cell.b
             /\ last.res.calls = <<"visit_enum">>
        ELSE /\ ~last.res.ok
             /\ last.res.vk = ""
             /\ status = "err"
             /\ CASE Cell.kind = "Text" /\ WellFormed(Cell.b) ->
                        /\ last.res.err = "Custom"
                        /\ last.res.msg = "unknown_variant"
                        /\ last.res.calls = <<"visit_enum">>
                  [] Cell.kind = "Text" /\ ~WellFormed(Cell.b) ->
                        last.res.err = "Utf8" /\ last.res.calls = <<>>
                  [] OTHER ->
                        /\ last.res.err = "Custom"
                        /\ last.res.msg = "invalid_type"
                        /\ last.res.calls = <<NaturalCall(Cell)>>

\* C5 witness: Text "aA" was decoded to the variant aA of the enumeration {A, aA}
C5_Witness ==
    /\ Dispatched
    /\ last.shape = <<"enum">>
    /\ Cell = Text(<<97, 65>>)
    /\ last.res.vk = "variant"
    /\ last.res.b = <<97, 65>>

\* C6: in positional mode an element request made when the row has no cell at the
\* cursor answers "no more elements", not an error, and leaves the cursor where it is
\* (so every later request is answered alike); no element is made up for a missing
\* cell; a failure of the row access other than an out-of-range index is an error.
C6_SeqShortfall ==
    access = "IndexedRowSeq" =>
        /\ Len(served) <= Len(row)
        /\ \A k \in 1..Len(served) : served[k] < Len(row)
        /\ last.op = "next_element_seed" =>
              /\ last.cursor >= Len(row) =>
                    /\ last.res = EndRes
                    /\ next_index = last.cursor
                    /\ status = "visiting"
                    /\ error = ""
              /\ last.res = EndRes => last.cursor >= Len(row)
              /\ last.got = "Other" =>
                    /\ ~last.res.ok
                    /\ last.res.err = "Rusqlite"
                    /\ status = "err"
                    /\ next_index = last.cursor

\* C6 witness: after the only cell of a row was handed out, the next request was
\* answered "no more elements"
C6_Witness ==
    /\ access = "IndexedRowSeq"
    /\ Len(row) = 1
    /\ served = <<0>>
    /\ last.op = "next_element_seed"
    /\ last.res = EndRes
    /\ next_index = 1

\* C7: a top-level shape the traversal mode does not support is a decode error raised
\* before any cell is read: by position, scalars, strings, bytes, options, maps and
\* enumerations fail with ExpectedTupleLikeBaseType; by name, sequences, tuples,
\* scalars and enumerations fail with ExpectedStructLikeBaseType.
C7_TopLevelMismatch ==
    /\ (/\ entry = "from_row_via_index"
        /\ Leaf(target) \in {"bool", "i64", "f64", "string", "bytes", "option", "map", "enum"}) =>
            /\ status = "err"
            /\ error = "ExpectedTupleLikeBaseType"
            /\ access = "none"
            /\ served = <<>>
            /\ keys = <<>>
    /\ (/\ entry = "from_row_via_name"
        /\ Leaf(target) \in {"seq", "tuple", "tuple_struct", "bool", "i64", "f64", "string",
                             "bytes", "enum"}) =>
            /\ status = "err"
            /\ error = "ExpectedStructLikeBaseType"
            /\ access = "none"
            /\ served = <<>>
            /\ keys = <<>>

\* C7 witness: a tuple was requested by name from a row that has cells
C7_Witness ==
    /\ entry = "from_row_via_name"
    /\ target = <<"tuple">>
    /\ Len(row) > 0
    /\ error = "ExpectedStructLikeBaseType"

\* C8: an option requested against a cell: a Null cell is absent; every other cell is
\* present, wrapping the decode of that same cell against the inner shape; the
\* wrapping consumes no further cell and does not move the cursor.
C8_OptionOfCell ==
    (Dispatched /\ Head(last.shape) = "option") =>
        /\ IF Cell.kind = "Null"
           THEN last.res.ok /\ last.res.vk = "none" /\ last.res.calls = <<"visit_none">>
           ELSE /\ last.res.calls # <<>>
                /\ last.res.calls[1] = "visit_some"
                /\ last.res = Via("visit_some", Deserialize(Cell, Tail(last.shape), last.variants))
                /\ (Tail(last.shape) = NaturalShape(Cell) /\ (Cell.kind = "Text" => WellFormed(Cell.b))) =>
                      /\ last.res.ok
                      /\ last.res.vk = NaturalValue(Cell)
                      /\ last.res.i = Cell.i
                      /\ last.res.b = Cell.b
        /\ served[Len(served)] = last.idx
        /\ next_index = (IF last.op = "next_element_seed" THEN last.cursor + 1 ELSE last.cursor)

\* C8 witness: Option<i64> was decoded from a non-zero and from a zero Integer cell
\* alike; this is the zero one
C8_Witness ==
    /\ Dispatched
    /\ last.shape = <<"option", "i64">>
    /\ Cell = Integer(0)
    /\ last.res.ok
    /\ last.res.calls = <<"visit_some", "visit_i64">>
    /\ last.res.i = 0

\* C9: a boolean requested against a cell: Integer(0) is false, every other Integer,
\* negative ones included, is true, never an error; a cell of another kind is not
\* coerced: it is dispatched as its natural representation, which a boolean refuses.
C9_BoolOfCell ==
    (Dispatched /\ Head(last.shape) = "bool") =>
        CASE Cell.kind = "Integer" ->
                /\ last.res.ok
                /\ last.res.vk = "bool"
                /\ last.res.i = (IF Cell.i = 0 THEN 0 ELSE 1)
                /\ last.res.calls = <<"visit_bool">>
          [] Cell.kind = "Text" /\ ~WellFormed(Cell.b) ->
                ~last.res.ok /\ last.res.err = "Utf8" /\ last.res.calls = <<>>
          [] OTHER ->
                /\ ~last.res.ok
                /\ last.res.err = "Custom"
                /\ last.res.calls = <<NaturalCall(Cell)>>

\* C9 witness: a negative Integer cell was decoded to true
C9_Witness ==
    /\ Dispatched
    /\ last.shape = <<"bool">>
    /\ Cell.kind = "Integer"
    /\ Cell.i < 0
    /\ last.res.ok
    /\ last.res.i = 1

\* C10: a Text cell whose bytes are not well-formed UTF-8 fails with the Utf8 error
\* whatever shape is requested of it, enumerations included; no string is handed to
\* the target and no value is produced.
C10_InvalidUtf8 ==
    (Dispatched /\ Cell.kind = "Text" /\ ~WellFormed(Cell.b)) =>
        /\ ~last.res.ok
        /\ last.res.err = "Utf8"
        /\ last.res.vk = ""
        /\ \A k \in 1..Len(last.res.calls) :
              last.res.calls[k] \notin {"visit_borrowed_str", "visit_enum"}
        /\ status = "err"
        /\ error = "Utf8"

\* C10 witness: an enumeration was requested of a Text cell holding a lone lead byte
C10_Witness ==
    /\ Dispatched
    /\ last.shape = <<"enum">>
    /\ Cell = Text(<<195>>)
    /\ error = "Utf8"

\* the variants of enum Error
ErrorKinds ==
    {"ExpectedTupleLikeBaseType", "ExpectedStructLikeBaseType", "Utf8", "Rusqlite", "Custom"}

\* C11: decoding is all-or-nothing at both entry points: the call returns a complete
\* value, built from cells that all decoded, or an error; an internal error of any
\* kind raised at any step fails the whole call and is returned wrapped in
\* FromSqlError::Other, with no value, default or partial, beside it.
C11_AllOrNothing ==
    /\ status \in {"idle", "visiting"} => ret = NoRet
    /\ status \in {"visiting", "ok"} => error = "" /\ last.res.ok
    /\ status = "ok" =>
          /\ ret.tag = "Ok"
          /\ ret.cells = served
          /\ ret.source = ""
    /\ ~last.res.ok => status = "err" /\ error = last.res.err
    /\ error # "" => status = "err"
    /\ status = "err" =>
          /\ error \in ErrorKinds
          /\ ret.tag = "Err"
          /\ ret.carrier = "FromSqlError::Other"
          /\ ret.source = error
          /\ ret.cells = <<>>

\* C11 witness: by position, the second cell of a row failed to decode with a Custom
\* error after the first had been decoded, and the call returned the wrapped error
C11_Witness ==
    /\ entry = "from_row_via_index"
    /\ served = <<0, 1>>
    /\ error = "Custom"
    /\ ret = map_err("Custom")

(***************************************************************************)
(* Vaults: src/src/lib.rs (migrate), src/src/simple.rs (SimpleVault) and   *)
(* src/src/tokio.rs (migrate, run, TokioVault).                            *)
(*                                                                         *)
(* The database is what is committed (db) and, while a transaction is      *)
(* open, the transaction's working copy (tx).  A database is its           *)
(* user_version and the migrations whose effects it holds, in the order    *)
(* they were applied; the half-done work of a failed migration is -1.      *)
(***************************************************************************)
\* most migrations in the migration array
MaxMigrations == 2

VersionRange == 0..(MaxMigrations + 1)

\* a database at user_version v: migrations 0 .. v-1 were applied to it
DbAt(v) == [version |-> v, applied |-> [k \in 1..v |-> k - 1]]

NoTx == [open |-> FALSE, version |-> 0, applied |-> <<>>]

\* conn.transaction(): the working copy starts as the committed database
Begin(committed) == [open |-> TRUE, version |-> committed.version, applied |-> committed.applied]

\* a database that keeps what a dropped transaction had done
Rollback_KeepsWork(committed, working) == [committed EXCEPT !.applied = working.applied]

\* the transaction is dropped by `?` (or by the unwinding of a panic): rollback
Rollback(committed, working) == committed

\* tx.commit()
Commit(committed, working) == [version |-> working.version, applied |-> working.applied]

\* a loop that runs every migration of the array
SkipTo_Zero(user_version) == 0

\* migrations.iter().enumerate().skip(user_version): the first index run
SkipTo(user_version) == user_version

VARIABLES
    vault,       \* "simple" or "tokio": the constructor being run
    total,       \* migrations.len()
    db0,         \* the database as it was handed to the constructor
    db,          \* the committed database
    tx,          \* the open transaction's working copy
    conn,        \* "open", or "dropped" once the Connection was dropped
    cpc,         \* where the constructor is
    uv,          \* migrate's local user_version
    mi,          \* migrate's loop index
    mcalls,      \* the (index, total) pairs the migrations were called with
    mres,        \* what migrate returned: "", "Ok", "Err"
    cres,        \* what the constructor returned: "", "Ok", "Err", "Panic"
    cerr,        \* the step whose error was returned
    trace        \* migrate / prepare / spawn, in the order they completed

cvars == <<vault, total, db0, db, tx, conn, cpc, uv, mi, mcalls, mres, cres, cerr, trace>>

VARIABLES
    rx,          \* the channel's receiver: "none", "open", "dropped"
    chan,        \* the commands in the channel, oldest first
    worker,      \* the worker thread: "none", "recv", "run", "exit", "ended"
    cur,         \* the command whose action the worker is running
    running,     \* the actions inside action.run
    ran,         \* the actions run on the connection, in the order they started
    enq,         \* the commands sent on the channel, in the order they were sent
    oneshot,     \* per call: the oneshot channel the call made
    call         \* per call: op, pc ("idle", "await", "done"), out, seen

wvars == <<rx, chan, worker, cur, running, ran, enq, oneshot, call>>

ConstructorInit ==
    /\ vault \in {"simple", "tokio"}
    /\ total \in 0..MaxMigrations
    /\ \E v \in VersionRange : db0 = DbAt(v) /\ db = DbAt(v)
    /\ tx = NoTx
    /\ conn = "open"
    /\ cpc = "transaction"
    /\ uv = 0
    /\ mi = 0
    /\ mcalls = <<>>
    /\ mres = ""
    /\ cres = ""
    /\ cerr = ""
    /\ trace = <<>>

\* a constructor that spawns the worker right after the migrations
ThenAfter_SpawnFirst(step) == "construct"

\* launch_and_prepare / new_and_prepare: what follows a step that returned Ok
ThenAfter(step) ==
    CASE step = "migrate" -> "prepare"
      [] step = "prepare" -> "construct"
      [] OTHER -> "returned"

\* a step of the constructor returned Err: `?` returns it, dropping the transaction
\* and the connection
Fail(step, inMigrate) ==
    /\ db' = Rollback(db, tx)
    /\ tx' = NoTx
    /\ conn' = "dropped"
    /\ cpc' = "returned"
    /\ mres' = (IF inMigrate THEN "Err" ELSE mres)
    /\ cres' = "Err"
    /\ cerr' = step

\* migrate: let mut tx = conn.transaction()?;
migrate_transaction ==
    /\ cpc = "transaction"
    /\ \E ok \in BOOLEAN :
          IF ok
          THEN /\ tx' = Begin(db)
               /\ cpc' = "user_version"
               /\ UNCHANGED <<db, conn, mres, cres, cerr>>
          ELSE Fail("transaction", TRUE)
    /\ UNCHANGED <<vault, total, db0, uv, mi, mcalls, trace>>
    /\ UNCHANGED wvars

\* migrate: let user_version = tx.query_row(..)?; let total = migrations.len();
\* assert!(user_version <= total, "malformed database schema");
migrate_user_version ==
    /\ cpc = "user_version"
    /\ \E ok \in BOOLEAN :
          CASE ~ok ->
                  /\ Fail("user_version", TRUE)
                  /\ UNCHANGED <<uv, mi>>
            [] ok /\ tx.version > total ->
                  /\ db' = Rollback(db, tx)
                  /\ tx' = NoTx
                  /\ conn' = "dropped"
                  /\ cpc' = "returned"
                  /\ cres' = "Panic"
                  /\ uv' = tx.version
                  /\ UNCHANGED <<mi, mres, cerr>>
            [] OTHER ->
                  /\ uv' = tx.version
                  /\ mi' = SkipTo(tx.version)
                  /\ cpc' = "migrations"
                  /\ UNCHANGED <<db, tx, conn, mres, cres, cerr>>
    /\ UNCHANGED <<vault, total, db0, mcalls, trace>>
    /\ UNCHANGED wvars

\* migrate: for (i, migration) in ..  { migration(&mut tx, i, total)?; }
migrate_migration ==
    /\ cpc = "migrations"
    /\ IF mi < total
       THEN /\ mcalls' = Append(mcalls, <<mi, total>>)
            /\ \E ok \in BOOLEAN :
                  IF ok
                  THEN /\ tx' = [tx EXCEPT !.applied = Append(@, mi)]
                       /\ mi' = mi + 1
                       /\ UNCHANGED <<db, conn, cpc, mres, cres, cerr>>
                  ELSE /\ db' = Rollback(db, [tx EXCEPT !.applied = Append(@, -1)])
                       /\ tx' = NoTx
                       /\ conn' = "dropped"
                       /\ cpc' = "returned"
                       /\ mres' = "Err"
                       /\ cres' = "Err"
                       /\ cerr' = "migration"
                       /\ UNCHANGED mi
       ELSE /\ cpc' = "pragma_update"
            /\ UNCHANGED <<db, tx, conn, mi, mcalls, mres, cres, cerr>>
    /\ UNCHANGED <<vault, total, db0, uv, trace>>
    /\ UNCHANGED wvars

\* migrate: tx.pragma_update(None, "user_version", total)?;
migrate_pragma_update ==
    /\ cpc = "pragma_update"
    /\ \E ok \in BOOLEAN :
          IF ok
          THEN /\ tx' = [tx EXCEPT !.version = total]
               /\ cpc' = "commit"
               /\ UNCHANGED <<db, conn, mres, cres, cerr>>
          ELSE Fail("pragma_update", TRUE)
    /\ UNCHANGED <<vault, total, db0, uv, mi, mcalls, trace>>
    /\ UNCHANGED wvars

\* migrate: tx.commit()
migrate_commit ==
    /\ cpc = "commit"
    /\ \E ok \in BOOLEAN :
          IF ok
          THEN /\ db' = Commit(db, tx)
               /\ tx' = NoTx
               /\ mres' = "Ok"
               /\ cpc' = ThenAfter("migrate")
               /\ trace' = Append(trace, "migrate")
               /\ UNCHANGED <<conn, cres, cerr>>
          ELSE /\ Fail("commit", TRUE)
               /\ UNCHANGED trace
    /\ UNCHANGED <<vault, total, db0, uv, mi, mcalls>>
    /\ UNCHANGED wvars

\* most execute / stop calls made on one vault
MaxCalls == 3

Calls == 1..MaxCalls

\* the type A::Result of the action passed by call c
ResultType(c) == c % 2

NoCommand == [kind |-> "", action |-> 0, tx |-> 0]

\* a command whose answers all go to the first caller's oneshot
Command_Action_SharedReply(c) == [kind |-> "Action", action |-> c, tx |-> 1]

\* Command::Action(Box::new(wrapper), tx): the action of call c and the sender of
\* the oneshot channel call c made
Command_Action(c) == [kind |-> "Action", action |-> c, tx |-> c]

\* Command::Stop(tx)
Command_Stop(c) == [kind |-> "Stop", action |-> 0, tx |-> c]

\* a receiver that hands out the newest command
blocking_recv_Newest(queue) == queue[Len(queue)]

\* rx.blocking_recv(): the oldest command of the channel
blocking_recv(queue) == Head(queue)

\* the queue once command k was taken out of it
Without(queue, k) == [j \in 1..(Len(queue) - 1) |-> IF j < k THEN queue[j] ELSE queue[j + 1]]

\* the position in the queue of the command blocking_recv hands out
Taken(queue, cmd) == CHOOSE k \in 1..Len(queue) : queue[k] = cmd

\* a oneshot channel: "none", "pending" (nothing sent, sender alive), "closed"
\* (sender dropped, nothing sent)
Oneshot(st) == [st |-> st, of |-> 0, ok |-> FALSE]

\* a oneshot channel holding the result of the action of call c: Ok or Err
Answer(c, ok) == [st |-> "sent", of |-> c, ok |-> ok]

\* a worker that goes on receiving after a Stop
Then_NoBreak(cmd) == IF cmd.kind = "Action" THEN "run" ELSE "recv"

\* run: what the worker does with the command received: it runs the action, or
\* (Stop) breaks out of the loop
Then(cmd) == IF cmd.kind = "Action" THEN "run" ELSE "exit"

\* a worker that leaks the receiver: queued commands keep their senders
DropReceiver_Leak(queue, oneshots) == oneshots

\* run returns: rx is dropped, and with it every queued command and its sender
DropReceiver(queue, oneshots) ==
    [c \in DOMAIN oneshots |->
        IF \E k \in 1..Len(queue) : queue[k].tx = c THEN Oneshot("closed") ELSE oneshots[c]]

NoOut == [kind |-> "", of |-> 0]

\* what execute returns from the answer it received
Outcome(c, answer) ==
    CASE answer.st = "closed" -> [kind |-> "Stopped", of |-> 0]
      [] ~answer.ok -> [kind |-> "Rusqlite", of |-> answer.of]
      [] ResultType(answer.of) # ResultType(c) -> [kind |-> "DowncastPanic", of |-> answer.of]
      [] OTHER -> [kind |-> "Value", of |-> answer.of]

IdleCall == [op |-> "", pc |-> "idle", out |-> NoOut, seen |-> 0]

\* calls are numbered in the order in which they are made: c is the next one
IsNextCall(c) == call[c].pc = "idle" /\ \A b \in Calls : b < c => call[b].pc # "idle"

ServingInit ==
    /\ rx = "none"
    /\ chan = <<>>
    /\ worker = "none"
    /\ cur = NoCommand
    /\ running = {}
    /\ ran = <<>>
    /\ enq = <<>>
    /\ oneshot = [c \in Calls |-> Oneshot("none")]
    /\ call = [c \in Calls |-> IdleCall]

\* launch_and_prepare / new_and_prepare: prepare(&mut conn)?;
prepare ==
    /\ cpc = "prepare"
    /\ \E ok \in BOOLEAN :
          IF ok
          THEN /\ trace' = Append(trace, "prepare")
               /\ cpc' = ThenAfter("prepare")
               /\ UNCHANGED <<db, tx, conn, mres, cres, cerr>>
          ELSE /\ Fail("prepare", FALSE)
               /\ UNCHANGED trace
    /\ UNCHANGED <<vault, total, db0, uv, mi, mcalls>>
    /\ UNCHANGED wvars

\* SimpleVault::new_and_prepare: Ok(Self(conn))
new_and_prepare ==
    /\ cpc = "construct"
    /\ vault = "simple"
    /\ cpc' = "returned"
    /\ cres' = "Ok"
    /\ trace' = Append(trace, "construct")
    /\ UNCHANGED <<vault, total, db0, db, tx, conn, uv, mi, mcalls, mres, cerr>>
    /\ UNCHANGED wvars

\* TokioVault::launch_and_prepare: unbounded_channel(); thread::spawn(..); Ok(Self { tx })
launch_and_prepare ==
    /\ cpc = "construct"
    /\ vault = "tokio"
    /\ cpc' = "returned"
    /\ cres' = "Ok"
    /\ trace' = Append(trace, "construct")
    /\ rx' = "open"
    /\ worker' = "recv"
    /\ UNCHANGED <<vault, total, db0, db, tx, conn, uv, mi, mcalls, mres, cerr>>
    /\ UNCHANGED <<chan, cur, running, ran, enq, oneshot, call>>

\* SimpleVault::execute: action.run(&mut self.0)
SimpleVault_execute(c) ==
    /\ vault = "simple"
    /\ cres = "Ok"
    /\ IsNextCall(c)
    /\ ran' = Append(ran, c)
    /\ \E ok \in BOOLEAN :
          call' = [call EXCEPT ![c] = [op |-> "execute", pc |-> "done",
                                       out |-> Outcome(c, Answer(c, ok)),
                                       seen |-> Len(ran')]]
    /\ UNCHANGED cvars
    /\ UNCHANGED <<rx, chan, worker, cur, running, enq, oneshot>>

\* TokioVault::execute up to its first suspension: the oneshot channel is made and
\* the command is sent; a send on a closed channel is Error::Stopped
execute_send(c) ==
    /\ vault = "tokio"
    /\ cres = "Ok"
    /\ IsNextCall(c)
    /\ IF rx = "open"
       THEN /\ chan' = Append(chan, Command_Action(c))
            /\ enq' = Append(enq, Command_Action(c))
            /\ oneshot' = [oneshot EXCEPT ![c] = Oneshot("pending")]
            /\ call' = [call EXCEPT ![c] = [op |-> "execute", pc |-> "await",
                                            out |-> NoOut, seen |-> 0]]
       ELSE /\ oneshot' = [oneshot EXCEPT ![c] = Oneshot("closed")]
            /\ call' = [call EXCEPT ![c] = [op |-> "execute", pc |-> "done",
                                            out |-> Outcome(c, Oneshot("closed")),
                                            seen |-> Len(ran)]]
            /\ UNCHANGED <<chan, enq>>
    /\ UNCHANGED cvars
    /\ UNCHANGED <<rx, worker, cur, running, ran>>

\* TokioVault::execute: rx.await, the downcast and the return
execute_await(c) ==
    /\ call[c].op = "execute"
    /\ call[c].pc = "await"
    /\ oneshot[c].st # "pending"
    /\ call' = [call EXCEPT ![c] = [op |-> "execute", pc |-> "done",
                                    out |-> Outcome(c, oneshot[c]),
                                    seen |-> Len(ran)]]
    /\ UNCHANGED cvars
    /\ UNCHANGED <<rx, chan, worker, cur, running, ran, enq, oneshot>>

\* TokioVault::stop up to its suspension: let _ = self.tx.send(Command::Stop(tx));
stop_send(c) ==
    /\ vault = "tokio"
    /\ cres = "Ok"
    /\ IsNextCall(c)
    /\ IF rx = "open"
       THEN /\ chan' = Append(chan, Command_Stop(c))
            /\ enq' = Append(enq, Command_Stop(c))
            /\ oneshot' = [oneshot EXCEPT ![c] = Oneshot("pending")]
       ELSE /\ oneshot' = [oneshot EXCEPT ![c] = Oneshot("closed")]
            /\ UNCHANGED <<chan, enq>>
    /\ call' = [call EXCEPT ![c] = [op |-> "stop", pc |-> "await", out |-> NoOut, seen |-> 0]]
    /\ UNCHANGED cvars
    /\ UNCHANGED <<rx, worker, cur, running, ran>>

\* TokioVault::stop: let _ = rx.await;
stop_await(c) ==
    /\ call[c].op = "stop"
    /\ call[c].pc = "await"
    /\ oneshot[c].st # "pending"
    /\ call' = [call EXCEPT ![c] = [op |-> "stop", pc |-> "done",
                                    out |-> [kind |-> "Returned", of |-> 0],
                                    seen |-> Len(ran)]]
    /\ UNCHANGED cvars
    /\ UNCHANGED <<rx, chan, worker, cur, running, ran, enq, oneshot>>

\* run: rx.blocking_recv() hands out a command; an action starts to run, a Stop
\* drops the connection and then its sender
run_recv ==
    /\ worker = "recv"
    /\ chan # <<>>
    /\ LET cmd == blocking_recv(chan) IN
          /\ chan' = Without(chan, Taken(chan, cmd))
          /\ IF cmd.kind = "Action"
             THEN /\ worker' = Then(cmd)
                  /\ cur' = cmd
                  /\ running' = running \cup {cmd.action}
                  /\ ran' = Append(ran, cmd.action)
                  /\ UNCHANGED <<conn, oneshot>>
             ELSE /\ worker' = Then(cmd)
                  /\ conn' = "dropped"
                  /\ oneshot' = [oneshot EXCEPT ![cmd.tx] = Oneshot("closed")]
                  /\ UNCHANGED <<cur, running, ran>>
    /\ UNCHANGED <<vault, total, db0, db, tx, cpc, uv, mi, mcalls, mres, cres, cerr, trace>>
    /\ UNCHANGED <<rx, enq, call>>

\* run: action.run(&mut conn) returns and let _ = tx.send(result);
run_send ==
    /\ worker = "run"
    /\ \E ok \in BOOLEAN :
          oneshot' = [oneshot EXCEPT ![cur.tx] = Answer(cur.action, ok)]
    /\ running' = running \ {cur.action}
    /\ cur' = NoCommand
    /\ worker' = "recv"
    /\ UNCHANGED cvars
    /\ UNCHANGED <<rx, chan, ran, enq, call>>

\* run: after break the function returns and drops rx
run_return ==
    /\ worker = "exit"
    /\ worker' = "ended"
    /\ rx' = "dropped"
    /\ oneshot' = DropReceiver(chan, oneshot)
    /\ chan' = <<>>
    /\ UNCHANGED cvars
    /\ UNCHANGED <<cur, running, ran, enq, call>>

(***************************************************************************)
(* Specifications.  Decoding a row and running a vault do not touch each   *)
(* other's state: each specification holds the other part still.           *)
(***************************************************************************)
allvars == <<vars, cvars, wvars>>

\* no vault is being constructed
NoVault ==
    /\ vault = "simple"
    /\ total = 0
    /\ db0 = DbAt(0)
    /\ db = DbAt(0)
    /\ tx = NoTx
    /\ conn = "open"
    /\ cpc = "returned"
    /\ uv = 0
    /\ mi = 0
    /\ mcalls = <<>>
    /\ mres = ""
    /\ cres = ""
    /\ cerr = ""
    /\ trace = <<>>
    /\ ServingInit

\* no row is being decoded
NoRow ==
    /\ row = <<>>
    /\ columns = <<>>
    /\ status = "idle"
    /\ access = "none"
    /\ target = <<>>
    /\ fields = <<>>
    /\ next_index = 0
    /\ awaiting = FALSE
    /\ served = <<>>
    /\ keys = <<>>
    /\ entry = ""
    /\ error = ""
    /\ ret = NoRet
    /\ last = Request("none", 0, -1, "", NoReq, "", NoRes)

Init == RowInit /\ NoVault

Next ==
    \/ from_row_via_index /\ UNCHANGED <<cvars, wvars>>
    \/ from_row_via_name /\ UNCHANGED <<cvars, wvars>>
    \/ next_element_seed /\ UNCHANGED <<cvars, wvars>>
    \/ IndexedRowMap_next_key_seed /\ UNCHANGED <<cvars, wvars>>
    \/ IndexedRowMap_next_value_seed /\ UNCHANGED <<cvars, wvars>>
    \/ NamedRowMap_next_key_seed /\ UNCHANGED <<cvars, wvars>>
    \/ NamedRowMap_next_value_seed /\ UNCHANGED <<cvars, wvars>>
    \/ Finish /\ UNCHANGED <<cvars, wvars>>
    \/ visitor_error /\ UNCHANGED <<cvars, wvars>>

Spec == Init /\ [][Next]_allvars

VaultInit == ConstructorInit /\ ServingInit /\ NoRow

VaultNext ==
    \/ migrate_transaction /\ UNCHANGED vars
    \/ migrate_user_version /\ UNCHANGED vars
    \/ migrate_migration /\ UNCHANGED vars
    \/ migrate_pragma_update /\ UNCHANGED vars
    \/ migrate_commit /\ UNCHANGED vars
    \/ prepare /\ UNCHANGED vars
    \/ new_and_prepare /\ UNCHANGED vars
    \/ launch_and_prepare /\ UNCHANGED vars
    \/ \E c \in Calls : SimpleVault_execute(c) /\ UNCHANGED vars
    \/ \E c \in Calls : execute_send(c) /\ UNCHANGED vars
    \/ \E c \in Calls : execute_await(c) /\ UNCHANGED vars
    \/ \E c \in Calls : stop_send(c) /\ UNCHANGED vars
    \/ \E c \in Calls : stop_await(c) /\ UNCHANGED vars
    \/ run_recv /\ UNCHANGED vars
    \/ run_send /\ UNCHANGED vars
    \/ run_return /\ UNCHANGED vars

VaultSpec == VaultInit /\ [][VaultNext]_allvars

(***************************************************************************)
(* Properties of the vaults.                                               *)
(***************************************************************************)
MigrateSteps == {"transaction", "user_version", "migration", "pragma_update", "commit"}

\* the indices migrate has to run on a database at version v: v, v+1, .., n-1
Pending(v, n) == [k \in 1..(n - v) |-> v + k - 1]

\* C12: when migrate returns an error (a migration's, the version update's or the
\* commit's), that error is what the caller gets and the database is as it was
\* before the call: no effect of a migration that already ran is kept, and
\* user_version has its previous value.
C12_MigrationAtomicity ==
    mres = "Err" =>
        /\ cres = "Err"
        /\ cerr \in MigrateSteps
        /\ db = db0
        /\ db.version = db0.version
        /\ ~tx.open

\* C12 reached: a migration ran and the next one failed; all was rolled back
C12_Witness ==
    /\ mres = "Err"
    /\ cerr = "migration"
    /\ Len(mcalls) = 2
    /\ db = db0

\* C13: migrate calls the migrations v, v+1, .. in ascending order, each with its
\* own index and n, and none below v; when it returns Ok it has called exactly
\* v .. n-1, each once, and the stored user_version is n.
C13_MigrationOrder ==
    /\ \A k \in 1..Len(mcalls) : mcalls[k] = <<db0.version + k - 1, total>>
    /\ mres = "Ok" =>
          /\ db0.version <= total
          /\ mcalls = [k \in 1..(total - db0.version) |-> <<Pending(db0.version, total)[k], total>>]
          /\ db.version = total
          /\ db.applied = db0.applied \o Pending(db0.version, total)

\* C13 reached: a database at version 1 was migrated with 2 migrations
C13_Witness ==
    /\ mres = "Ok"
    /\ db0.version = 1
    /\ total = 2
    /\ mcalls = <<<<1, 2>>>>
    /\ db.version = 2

IsAction(cmd) == cmd.kind = "Action"

\* the actions whose commands were sent on the channel, in the order of sending
Enqueued == [k \in 1..Len(SelectSeq(enq, IsAction)) |-> SelectSeq(enq, IsAction)[k].action]

\* C14: on a TokioVault at most one action is inside action.run at any time, it is
\* the one the worker thread took last, and the actions that have started to run
\* are a prefix of the actions enqueued, in the order of enqueueing.
C14_Serialized ==
    vault = "tokio" =>
        /\ Cardinality(running) <= 1
        /\ running # {} => (worker = "run" /\ running = {cur.action})
        /\ Len(ran) <= Len(Enqueued)
        /\ \A k \in 1..Len(ran) : ran[k] = Enqueued[k]

\* C14 reached: two actions were enqueued while the worker was busy; the first of
\* them has run and the second is running while a third command waits
C14_Witness ==
    /\ vault = "tokio"
    /\ ran = <<1, 2>>
    /\ running = {2}
    /\ chan # <<>>
    /\ call[1].pc = "await"

\* the action of call c started to run on the connection
HasRun(c) == \E k \in 1..Len(ran) : ran[k] = c

\* the command of call c was sent on the channel after a Stop command
AfterStop(c) ==
    \E j, k \in 1..Len(enq) : j < k /\ enq[j].kind = "Stop" /\ enq[k] = Command_Action(c)

\* the command of call c could not be sent: the worker had ended
Unsent(c) == call[c].op = "execute" /\ \A k \in 1..Len(enq) : enq[k] # Command_Action(c)

\* C15: once a stop call has returned, the connection is dropped, no action is
\* running and none has started since; an action whose command was enqueued after
\* a Stop command, or could not be enqueued because the worker had ended, never
\* runs and its execute call returns Error::Stopped.
C15_StopStops ==
    vault = "tokio" =>
        /\ \A c \in Calls :
              (call[c].op = "stop" /\ call[c].pc = "done") =>
                  /\ conn = "dropped"
                  /\ running = {}
                  /\ worker \in {"exit", "ended"}
                  /\ Len(ran) = call[c].seen
        /\ \A c \in Calls :
              (AfterStop(c) \/ Unsent(c)) =>
                  /\ ~HasRun(c)
                  /\ call[c].pc = "done" => call[c].out.kind = "Stopped"

\* C15 reached: an action ran, stop returned, and an execute enqueued behind the
\* Stop command returned Error::Stopped
C15_Witness ==
    /\ vault = "tokio"
    /\ \E a, b, c \in Calls :
          /\ enq = <<Command_Action(a), Command_Stop(b), Command_Action(c)>>
          /\ ran = <<a>>
          /\ call[b].pc = "done"
          /\ call[c].pc = "done"
          /\ call[c].out.kind = "Stopped"

ConstructionOrder == <<"migrate", "prepare", "construct">>

\* the vault serves: a worker thread or a channel exists, a call was made or an
\* action ran
Serving ==
    \/ worker # "none"
    \/ rx # "none"
    \/ ran # <<>>
    \/ \E c \in Calls : call[c].pc # "idle"

\* C16: the constructor completes migrate, then prepare, then makes the vault
\* (TokioVault: spawns the worker); prepare starts only after migrate committed;
\* nothing is served before the constructor returned Ok, and when migrate or
\* prepare returns an error the constructor returns it, the connection is dropped,
\* and no worker, no call and no action ever exists.
C16_ConstructionOrder ==
    /\ Len(trace) <= 3
    /\ \A k \in 1..Len(trace) : trace[k] = ConstructionOrder[k]
    /\ (cpc = "prepare" \/ Len(trace) >= 1) =>
          (mres = "Ok" /\ ~tx.open /\ db.version = total)
    /\ Serving => (cres = "Ok" /\ trace = ConstructionOrder)
    /\ (vault = "simple") => (worker = "none" /\ rx = "none")
    /\ (mres = "Err" \/ cerr = "prepare") =>
          (cres = "Err" /\ cpc = "returned" /\ conn = "dropped" /\ ~Serving)

\* C16 reached: both migrations ran and were committed, then prepare failed and
\* the constructor returned its error
C16_Witness ==
    /\ cres = "Err"
    /\ cerr = "prepare"
    /\ mres = "Ok"
    /\ Len(mcalls) = 2
    /\ trace = <<"migrate">>
    /\ worker = "none"

\* C17: the answer that arrives on a call's oneshot channel was produced by running
\* that call's own action, so an execute call that returns a value or a rusqlite
\* error returns its own action's, and the downcast to A::Result never fails.
C17_OwnResult ==
    \A c \in Calls :
        /\ oneshot[c].st = "sent" => (oneshot[c].of = c /\ HasRun(c))
        /\ (call[c].op = "execute" /\ call[c].pc = "done") =>
              /\ call[c].out.kind \in {"Value", "Rusqlite", "Stopped"}
              /\ call[c].out.kind \in {"Value", "Rusqlite"} =>
                    (call[c].out.of = c /\ HasRun(c))

\* C17 reached: two calls with different result types were both waiting for their
\* answers, and each got its own action's value
C17_Witness ==
    /\ vault = "tokio"
    /\ ran = <<1, 2>>
    /\ ResultType(1) # ResultType(2)
    /\ call[1].out = [kind |-> "Value", of |-> 1]
    /\ call[2].out = [kind |-> "Value", of |-> 2]
    /\ call[1].seen = 2

(***************************************************************************)
(* Progress.  The worker thread keeps running and the actions it runs      *)
(* return; the runtime polls a call again once its oneshot channel has     *)
(* been answered or closed.  Nothing makes a caller start a call.          *)
(***************************************************************************)
VaultFairness ==
    /\ WF_allvars(run_recv /\ UNCHANGED vars)
    /\ WF_allvars(run_send /\ UNCHANGED vars)
    /\ WF_allvars(run_return /\ UNCHANGED vars)
    /\ \A c \in Calls : WF_allvars(execute_await(c) /\ UNCHANGED vars)
    /\ \A c \in Calls : WF_allvars(stop_await(c) /\ UNCHANGED vars)

VaultFairSpec == VaultInit /\ [][VaultNext]_allvars /\ VaultFairness

\* what an execute call that has returned has returned: its action's value, its
\* action's rusqlite error or Error::Stopped
ReturnKinds ==
    \A c \in Calls :
        (call[c].op = "execute" /\ call[c].pc = "done") =>
            call[c].out.kind \in {"Value", "Rusqlite", "Stopped"}

\* C18: every execute call and every stop call that has been started returns, an
\* execute call with its action's value, its action's rusqlite error or
\* Error::Stopped.
C18_Completes ==
    /\ []ReturnKinds
    /\ \A c \in Calls : (call[c].pc = "await") ~> (call[c].pc = "done")

\* C18 reached: an execute call queued behind a Stop returned Error::Stopped, and a
\* second stop, called on the stopped vault, returned as well
C18_Witness ==
    /\ worker = "ended"
    /\ \E a, b, c \in Calls :
          /\ enq = <<Command_Stop(a), Command_Action(b)>>
          /\ call[c].op = "stop"
          /\ call[a].pc = "done"
          /\ call[b].pc = "done"
          /\ call[c].pc = "done"
          /\ call[b].out.kind = "Stopped"

====
